---------------------------- MODULE Spec2Model ----------------------------
(***************************************************************************)
(* A model of the two sample scripts of the repository:                    *)
(*   - src/docs/samples/sample.py : User, UserManager (the registry)       *)
(*   - src/sample_python_code.py  : calculate_statistics, filter_outliers, *)
(*                                  FileManager.read_file / write_file     *)
(* Three independent state machines share the module; each specification  *)
(* exercises one of them and leaves the variables of the others at rest.   *)
(***************************************************************************)
EXTENDS Integers, Sequences, FiniteSets, TLC

(***************************************************************************)
(* Bounds of the model.                                                    *)
(***************************************************************************)
\* at most MaxObjs User objects are ever constructed
MaxObjs == 2
\* a client that writes to the objects it holds constructs at most MaxShared
MaxShared == 1

(***************************************************************************)
(* Text.  A Python str is a tuple of one-character strings.  Optional[str] *)
(* is a tuple of length 0 (None) or 1 (the string).                        *)
(***************************************************************************)
JohnDoe == <<"J", "o", "h", "n", " ", "D", "o", "e">>
Names == { <<>>, JohnDoe, <<"D", "O">> }
Emails == { <<>>, <<"j", "@", "x">> }
Queries == { <<>>, <<"j", "o", "h", "n">>, <<"O", "E">>, <<"x">> }
NoneStr == <<>>
Some(s) == <<s>>
OptNames == {NoneStr} \cup {Some(n) : n \in Names}
OptEmails == {NoneStr} \cup {Some(e) : e \in Emails}
UserIds == {1, 2}

\* str.lower() on one character of the alphabet in use
LowerChar(c) ==
    CASE c = "J" -> "j"
      [] c = "D" -> "d"
      [] c = "O" -> "o"
      [] c = "E" -> "e"
      [] OTHER -> c

\* str.lower()
Lower(s) == [i \in 1..Len(s) |-> LowerChar(s[i])]

\* the Python test `sub in s` on strings: sub occurs as a contiguous slice
StrIn(sub, s) ==
    \E i \in 0..(Len(s) - Len(sub)) : SubSeq(s, i + 1, i + Len(sub)) = sub

(***************************************************************************)
(* State of the registry.                                                  *)
(*   objs  : the User objects constructed so far; an object reference is   *)
(*           its index.  Objects are shared, not copied.                   *)
(*   users : UserManager.users, a dict, as the sequence of its items       *)
(*           [k |-> key, v |-> reference] in insertion order.              *)
(*   call  : the last call made and its arguments.                         *)
(*   ret   : the value that call returned: b for a bool, refs for a User   *)
(*           (one reference), None (no reference) or a list of Users.      *)
(*   live  : history: ids whose add_user succeeded with no successful      *)
(*           delete_user since.                                            *)
(***************************************************************************)
VARIABLES objs, users, call, ret, live

\* the statistics helper's run and the file manager's (described below)
VARIABLES sNumbers, sThreshold, sCall, sStats, sFiltered
VARIABLES osname, dirs, files, fcall, fret

regVars == <<objs, users, call, ret, live>>
statVars == <<sNumbers, sThreshold, sCall, sStats, sFiltered>>
fileVars == <<osname, dirs, files, fcall, fret>>

NoCall == [op |-> "init", o |-> 0, id |-> 0, name |-> NoneStr,
           email |-> NoneStr, query |-> <<>>, field |-> ""]
NoRet == [b |-> FALSE, refs |-> <<>>]
RetBool(b) == [b |-> b, refs |-> <<>>]
RetRefs(rs) == [b |-> FALSE, refs |-> rs]

\* dict helpers
Keys(d) == {d[i].k : i \in 1..Len(d)}
HasKey(d, key) == key \in Keys(d)
IndexOf(d, key) == CHOOSE i \in 1..Len(d) : d[i].k = key
Lookup(d, key) == d[IndexOf(d, key)].v
Values(d) == [i \in 1..Len(d) |-> d[i].v]
RemoveAt(s, i) == SubSeq(s, 1, i - 1) \o SubSeq(s, i + 1, Len(s))

\* UserManager.__init__
InitRegistry ==
    /\ objs = <<>>
    /\ users = <<>>
    /\ call = NoCall
    /\ ret = NoRet
    /\ live = {}

\* User.__init__ ; created_at is written once here and read by no operation
NewUser(uid, name, email) ==
    /\ Len(objs) < MaxObjs
    /\ objs' = Append(objs, [id |-> uid, name |-> name, email |-> email])
    /\ call' = [NoCall EXCEPT !.op = "User", !.id = uid,
                              !.name = Some(name), !.email = Some(email)]
    /\ ret' = RetRefs(<<Len(objs) + 1>>)
    /\ UNCHANGED <<users, live>>
    /\ UNCHANGED <<statVars, fileVars>>

\* a faulty add_user that stores a copy of the record
AddUserCopy(o) ==
    /\ o \in 1..Len(objs)
    /\ LET user == objs[o] IN
         /\ call' = [NoCall EXCEPT !.op = "add_user", !.o = o, !.id = user.id]
         /\ IF HasKey(users, user.id)
              THEN /\ users' = users
                   /\ objs' = objs
                   /\ ret' = RetBool(FALSE)
                   /\ live' = live
              ELSE /\ Len(objs) < MaxObjs
                   /\ objs' = Append(objs, user)
                   /\ users' = Append(users, [k |-> user.id, v |-> Len(objs) + 1])
                   /\ ret' = RetBool(TRUE)
                   /\ live' = live \cup {user.id}
    /\ UNCHANGED <<statVars, fileVars>>

\* a faulty add_user that overwrites an existing entry
AddUserOverwrite(o) ==
    /\ o \in 1..Len(objs)
    /\ LET user == objs[o] IN
         /\ call' = [NoCall EXCEPT !.op = "add_user", !.o = o, !.id = user.id]
         /\ IF HasKey(users, user.id)
              THEN /\ users' = [users EXCEPT ![IndexOf(users, user.id)].v = o]
                   /\ ret' = RetBool(FALSE)
                   /\ live' = live
              ELSE /\ users' = Append(users, [k |-> user.id, v |-> o])
                   /\ ret' = RetBool(TRUE)
                   /\ live' = live \cup {user.id}
    /\ UNCHANGED objs
    /\ UNCHANGED <<statVars, fileVars>>

\* UserManager.add_user
AddUser(o) ==
    /\ o \in 1..Len(objs)
    /\ LET user == objs[o] IN
         /\ call' = [NoCall EXCEPT !.op = "add_user", !.o = o, !.id = user.id]
         /\ IF HasKey(users, user.id)
              THEN /\ users' = users
                   /\ ret' = RetBool(FALSE)
                   /\ live' = live
              ELSE /\ users' = Append(users, [k |-> user.id, v |-> o])
                   /\ ret' = RetBool(TRUE)
                   /\ live' = live \cup {user.id}
    /\ UNCHANGED objs
    /\ UNCHANGED <<statVars, fileVars>>

\* a faulty get_user that takes the id for a position in the dict
GetUserByPosition(uid) ==
    /\ call' = [NoCall EXCEPT !.op = "get_user", !.id = uid]
    /\ ret' = IF uid \in 1..Len(users)
                THEN RetRefs(<<users[uid].v>>)
                ELSE RetRefs(<<>>)
    /\ UNCHANGED <<objs, users, live>>
    /\ UNCHANGED <<statVars, fileVars>>

\* UserManager.get_user
GetUser(uid) ==
    /\ call' = [NoCall EXCEPT !.op = "get_user", !.id = uid]
    /\ ret' = IF HasKey(users, uid)
                THEN RetRefs(<<Lookup(users, uid)>>)
                ELSE RetRefs(<<>>)
    /\ UNCHANGED <<objs, users, live>>
    /\ UNCHANGED <<statVars, fileVars>>

\* a faulty update_user that skips empty strings as well as None
UpdateUserNonEmpty(uid, name, email) ==
    /\ call' = [NoCall EXCEPT !.op = "update_user", !.id = uid,
                              !.name = name, !.email = email]
    /\ IF ~HasKey(users, uid)
         THEN /\ objs' = objs
              /\ ret' = RetBool(FALSE)
         ELSE LET o == Lookup(users, uid) IN
              /\ objs' = [objs EXCEPT
                    ![o].name = IF name # NoneStr /\ name[1] # <<>> THEN name[1] ELSE @,
                    ![o].email = IF email # NoneStr /\ email[1] # <<>> THEN email[1] ELSE @]
              /\ ret' = RetBool(TRUE)
    /\ UNCHANGED <<users, live>>
    /\ UNCHANGED <<statVars, fileVars>>

\* UserManager.update_user
UpdateUser(uid, name, email) ==
    /\ call' = [NoCall EXCEPT !.op = "update_user", !.id = uid,
                              !.name = name, !.email = email]
    /\ IF ~HasKey(users, uid)
         THEN /\ objs' = objs
              /\ ret' = RetBool(FALSE)
         ELSE LET o == Lookup(users, uid) IN
              /\ objs' = [objs EXCEPT
                    ![o].name = IF name # NoneStr THEN name[1] ELSE @,
                    ![o].email = IF email # NoneStr THEN email[1] ELSE @]
              /\ ret' = RetBool(TRUE)
    /\ UNCHANGED <<users, live>>
    /\ UNCHANGED <<statVars, fileVars>>

\* a faulty delete_user that reports success without removing the entry
DeleteUserKeep(uid) ==
    /\ call' = [NoCall EXCEPT !.op = "delete_user", !.id = uid]
    /\ IF ~HasKey(users, uid)
         THEN /\ ret' = RetBool(FALSE)
              /\ live' = live
         ELSE /\ ret' = RetBool(TRUE)
              /\ live' = live \ {uid}
    /\ UNCHANGED <<objs, users>>
    /\ UNCHANGED <<statVars, fileVars>>

\* UserManager.delete_user
DeleteUser(uid) ==
    /\ call' = [NoCall EXCEPT !.op = "delete_user", !.id = uid]
    /\ IF ~HasKey(users, uid)
         THEN /\ users' = users
              /\ ret' = RetBool(FALSE)
              /\ live' = live
         ELSE /\ users' = RemoveAt(users, IndexOf(users, uid))
              /\ ret' = RetBool(TRUE)
              /\ live' = live \ {uid}
    /\ UNCHANGED objs
    /\ UNCHANGED <<statVars, fileVars>>

\* UserManager.get_all_users
GetAllUsers ==
    /\ call' = [NoCall EXCEPT !.op = "get_all_users"]
    /\ ret' = RetRefs(Values(users))
    /\ UNCHANGED <<objs, users, live>>
    /\ UNCHANGED <<statVars, fileVars>>

\* the loop of search_users_by_name over the first n items of the dict
RECURSIVE SearchLoop(_, _, _, _)
SearchLoop(d, heap, normalized_query, n) ==
    IF n = 0 THEN <<>>
    ELSE LET results == SearchLoop(d, heap, normalized_query, n - 1)
             user == heap[d[n].v]
         IN IF StrIn(normalized_query, Lower(user.name))
              THEN Append(results, d[n].v)
              ELSE results

\* a faulty search that compares without normalising the query
SearchUsersByNameCaseSensitive(query) ==
    /\ call' = [NoCall EXCEPT !.op = "search_users_by_name", !.query = query]
    /\ ret' = RetRefs(SearchLoop(users, objs, query, Len(users)))
    /\ UNCHANGED <<objs, users, live>>
    /\ UNCHANGED <<statVars, fileVars>>

\* UserManager.search_users_by_name
SearchUsersByName(query) ==
    /\ call' = [NoCall EXCEPT !.op = "search_users_by_name", !.query = query]
    /\ ret' = RetRefs(SearchLoop(users, objs, Lower(query), Len(users)))
    /\ UNCHANGED <<objs, users, live>>
    /\ UNCHANGED <<statVars, fileVars>>

\* the caller assigns to an attribute of a User object it holds: the object
\* it constructed and passed to add_user is the object get_user,
\* get_all_users and search_users_by_name hand back
CallerSetAttr(o, field, value) ==
    /\ o \in 1..Len(objs)
    /\ objs[o][field] # value
    /\ objs' = [objs EXCEPT ![o][field] = value]
    /\ call' = [NoCall EXCEPT !.op = "setattr", !.o = o, !.field = field]
    /\ ret' = NoRet
    /\ UNCHANGED <<users, live>>
    /\ UNCHANGED <<statVars, fileVars>>

(***************************************************************************)
(* Statistics helper.  Numbers and thresholds are integers; a quotient is  *)
(* kept exactly, as the pair <<numerator, denominator>> with a positive    *)
(* denominator.                                                            *)
(***************************************************************************)
\* sample values are drawn from -MaxVal..MaxVal
MaxVal == 2
\* samples have at most MaxLen elements
MaxLen == 4
\* thresholds are drawn from 0..MaxThreshold
MaxThreshold == 2

\* the data set of the demonstration block
DataWithOutliers == <<1, 2, 3, 4, 5, 100>>

RECURSIVE SeqsUpTo(_, _)
SeqsUpTo(S, n) ==
    IF n = 0 THEN {<<>>}
    ELSE LET shorter == SeqsUpTo(S, n - 1)
         IN shorter \cup {Append(s, x) : s \in {t \in shorter : Len(t) = n - 1}, x \in S}

Samples == SeqsUpTo((0 - MaxVal)..MaxVal, MaxLen) \cup {DataWithOutliers}
Thresholds == 0..MaxThreshold

\* the built-in sum
RECURSIVE Sum(_)
Sum(s) == IF s = <<>> THEN 0 ELSE s[1] + Sum(Tail(s))

\* the built-in min
RECURSIVE Min(_)
Min(s) ==
    IF Len(s) = 1 THEN s[1]
    ELSE LET m == Min(Tail(s)) IN IF s[1] <= m THEN s[1] ELSE m

\* the built-in max
RECURSIVE Max(_)
Max(s) ==
    IF Len(s) = 1 THEN s[1]
    ELSE LET m == Max(Tail(s)) IN IF s[1] >= m THEN s[1] ELSE m

\* insertion of x into an ascending sequence, after its equals
RECURSIVE Insert(_, _)
Insert(x, s) ==
    IF s = <<>> THEN <<x>>
    ELSE IF x < s[1] THEN <<x>> \o s
    ELSE <<s[1]>> \o Insert(x, Tail(s))

\* the built-in sorted: a new ascending list
RECURSIVE Sorted(_)
Sorted(s) ==
    IF s = <<>> THEN <<>>
    ELSE Insert(s[Len(s)], Sorted(SubSeq(s, 1, Len(s) - 1)))

EmptyStats == [empty |-> TRUE, mean |-> <<0, 1>>, median |-> <<0, 1>>,
               min |-> 0, max |-> 0, count |-> 0]

\* a faulty median that takes the upper middle element for an even count
calculate_statistics_upper(numbers) ==
    IF numbers = <<>> THEN EmptyStats
    ELSE LET total == Sum(numbers)
             count == Len(numbers)
             sorted_numbers == Sorted(numbers)
         IN [empty |-> FALSE,
             mean |-> <<total, count>>,
             median |-> <<sorted_numbers[count \div 2 + 1], 1>>,
             min |-> Min(numbers),
             max |-> Max(numbers),
             count |-> count]

\* calculate_statistics; the dict {} is the record whose empty is TRUE
calculate_statistics(numbers) ==
    IF numbers = <<>> THEN EmptyStats
    ELSE LET total == Sum(numbers)
             count == Len(numbers)
             mean == <<total, count>>
             sorted_numbers == Sorted(numbers)
             median == IF count % 2 = 0
                         THEN <<sorted_numbers[count \div 2]
                                  + sorted_numbers[count \div 2 + 1], 2>>
                         ELSE <<sorted_numbers[count \div 2 + 1], 1>>
         IN [empty |-> FALSE,
             mean |-> mean,
             median |-> median,
             min |-> Min(numbers),
             max |-> Max(numbers),
             count |-> count]

\* sum((x - mean) ** 2 for x in data) with mean = m[1]/m[2]: the numerator
\* over the common denominator m[2]^2
RECURSIVE SumSqDev(_, _)
SumSqDev(data, m) ==
    IF data = <<>> THEN 0
    ELSE (m[2] * data[1] - m[1]) * (m[2] * data[1] - m[1]) + SumSqDev(Tail(data), m)

\* a faulty filter that keeps only values strictly inside the threshold
WithinThresholdStrict(x, m, threshold, v) ==
    (m[2] * x - m[1]) * (m[2] * x - m[1]) * v[2]
       < threshold * threshold * v[1] * m[2] * m[2]

\* abs(x - mean) <= threshold * std_dev, where std_dev = variance ** 0.5 and
\* variance = v[1]/v[2]; both sides are non-negative for threshold >= 0, so
\* the comparison is that of their squares
WithinThreshold(x, m, threshold, v) ==
    IF threshold >= 0
      THEN (m[2] * x - m[1]) * (m[2] * x - m[1]) * v[2]
             <= threshold * threshold * v[1] * m[2] * m[2]
      ELSE m[2] * x = m[1] /\ v[1] = 0

\* the list comprehension of filter_outliers
RECURSIVE Comprehension(_, _, _, _)
Comprehension(data, m, threshold, v) ==
    IF data = <<>> THEN <<>>
    ELSE (IF WithinThreshold(data[1], m, threshold, v) THEN <<data[1]>> ELSE <<>>)
           \o Comprehension(Tail(data), m, threshold, v)

\* filter_outliers
filter_outliers(data, threshold) ==
    IF Len(data) < 3 THEN data
    ELSE LET stats == calculate_statistics(data)
             mean == stats.mean
             variance == <<SumSqDev(data, mean), mean[2] * mean[2] * Len(data)>>
         IN Comprehension(data, mean, threshold, variance)

(***************************************************************************)
(* State of a run of the statistics helper: the caller's list and          *)
(* threshold, the last function applied and what it returned.              *)
(***************************************************************************)
\*   sNumbers, sThreshold : the arguments; sCall : the last function applied;
\*   sStats, sFiltered : what it returned

InitStats ==
    /\ sNumbers \in Samples
    /\ sThreshold \in Thresholds
    /\ sCall = "init"
    /\ sStats = EmptyStats
    /\ sFiltered = <<>>

\* sStats = calculate_statistics(sNumbers)
CalculateStatistics ==
    /\ sCall' = "calculate_statistics"
    /\ sStats' = calculate_statistics(sNumbers)
    /\ sFiltered' = <<>>
    /\ UNCHANGED <<sNumbers, sThreshold>>
    /\ UNCHANGED <<regVars, fileVars>>

\* sFiltered = filter_outliers(sNumbers, sThreshold)
FilterOutliers ==
    /\ sCall' = "filter_outliers"
    /\ sFiltered' = filter_outliers(sNumbers, sThreshold)
    /\ sStats' = EmptyStats
    /\ UNCHANGED <<sNumbers, sThreshold>>
    /\ UNCHANGED <<regVars, fileVars>>

(***************************************************************************)
(* File manager.  A path is the tuple of its components, relative to the   *)
(* working directory: <<"out">> is a bare file name, <<"d", "e", "out">>   *)
(* is d/e/out.  A text is a tuple of characters; CR, LF and a lone         *)
(* surrogate (which utf-8 cannot encode) stand beside an ordinary letter.  *)
(***************************************************************************)
\* texts have at most MaxText characters
MaxText == 2

CR == "\r"
LF == "\n"
SUR == "surrogate"
Chars == {"a", CR, LF, SUR}
Texts == SeqsUpTo(Chars, MaxText)

BareName == <<"out">>
NestedDir == <<"d", "e">>
NestedFile == <<"d", "e", "out">>
Paths == {BareName, NestedDir, NestedFile}

\* os.path.dirname
dirname(path) == SubSeq(path, 1, Len(path) - 1)

\* os.linesep of the platform
LineSep(platform) == IF platform = "nt" THEN <<CR, LF>> ELSE <<LF>>

\* what a text-mode file opened with newline=None writes: "\n" becomes os.linesep
RECURSIVE TranslateWrite(_, _)
TranslateWrite(s, platform) ==
    IF s = <<>> THEN <<>>
    ELSE (IF s[1] = LF THEN LineSep(platform) ELSE <<s[1]>>)
           \o TranslateWrite(Tail(s), platform)

\* what a text-mode file opened with newline=None reads: "\r\n" and "\r"
\* become "\n"
RECURSIVE TranslateRead(_)
TranslateRead(s) ==
    IF s = <<>> THEN <<>>
    ELSE IF s[1] = CR
           THEN IF Len(s) >= 2 /\ s[2] = LF
                  THEN <<LF>> \o TranslateRead(SubSeq(s, 3, Len(s)))
                  ELSE <<LF>> \o TranslateRead(Tail(s))
           ELSE <<s[1]>> \o TranslateRead(Tail(s))

\* whether the utf-8 codec encodes the text
Encodable(s) == \A i \in 1..Len(s) : s[i] # SUR

\* os.makedirs(name, exist_ok=True) on directories ds and files fs:
\* whether it returns normally, and the directories afterwards
RECURSIVE makedirs(_, _, _)
makedirs(name, ds, fs) ==
    IF name = <<>> THEN [ok |-> FALSE, dirs |-> ds]
    ELSE LET head == dirname(name)
             up == IF head # <<>> /\ head \notin ds /\ head \notin DOMAIN fs
                     THEN makedirs(head, ds, fs)
                     ELSE [ok |-> TRUE, dirs |-> ds]
         IN IF ~up.ok THEN up
            ELSE IF name \in up.dirs THEN up
            ELSE IF name \in DOMAIN fs THEN [ok |-> FALSE, dirs |-> up.dirs]
            ELSE IF head # <<>> /\ head \notin up.dirs THEN [ok |-> FALSE, dirs |-> up.dirs]
            ELSE [ok |-> TRUE, dirs |-> up.dirs \cup {name}]

\* whether open(path, mode) returns a file
CanOpen(path, mode, ds, fs) ==
    /\ path # <<>>
    /\ path \notin ds
    /\ dirname(path) = <<>> \/ dirname(path) \in ds
    /\ mode = "r" => path \in DOMAIN fs

(***************************************************************************)
(* State of the file system and of the last FileManager call.              *)
(*   osname   : os.name, "posix" or "nt"                                   *)
(*   dirs     : the directories below the working directory                *)
(*   files    : the regular files, each with the characters on disk        *)
(*   fcall    : the last call and its arguments                            *)
(*   fret     : what it returned: ok for write_file's bool, text for       *)
(*              read_file's Optional[str]                                  *)
(***************************************************************************)

NoFile == [p \in {} |-> <<>>]
NoFCall == [op |-> "init", path |-> <<>>, content |-> <<>>]
NoFRet == [ok |-> FALSE, text |-> NoneStr]

\* the file systems a run starts in: an empty working directory, one that
\* holds a file out, one that holds the directories d and d/e, and one
\* where d is a regular file
InitFiles ==
    /\ osname \in {"posix", "nt"}
    /\ \/ dirs = {} /\ files = NoFile
       \/ dirs = {} /\ files = [p \in {BareName} |-> <<"a">>]
       \/ dirs = {<<"d">>, NestedDir} /\ files = NoFile
       \/ dirs = {} /\ files = [p \in {<<"d">>} |-> <<"a">>]
    /\ fcall = NoFCall
    /\ fret = NoFRet

\* FileManager.read_file
ReadFile(path) ==
    /\ fcall' = [op |-> "read_file", path |-> path, content |-> <<>>]
    /\ fret' = IF CanOpen(path, "r", dirs, files)
                 THEN [ok |-> FALSE, text |-> Some(TranslateRead(files[path]))]
                 ELSE [ok |-> FALSE, text |-> NoneStr]
    /\ UNCHANGED <<osname, dirs, files>>
    /\ UNCHANGED <<regVars, statVars>>

\* FileManager.write_file
WriteFile(path, content) ==
    /\ fcall' = [op |-> "write_file", path |-> path, content |-> content]
    /\ LET made == makedirs(dirname(path), dirs, files)
       IN IF ~made.ok \/ ~CanOpen(path, "w", made.dirs, files)
            THEN \* makedirs or open raised
                 /\ dirs' = made.dirs
                 /\ files' = files
                 /\ fret' = [ok |-> FALSE, text |-> NoneStr]
            ELSE \* open truncated the file; f.write raises on a text
                 \* utf-8 cannot encode
                 /\ dirs' = made.dirs
                 /\ files' = [p \in DOMAIN files \cup {path} |->
                                IF p = path
                                  THEN IF Encodable(content)
                                         THEN TranslateWrite(content, osname)
                                         ELSE <<>>
                                  ELSE files[p]]
                 /\ fret' = [ok |-> Encodable(content), text |-> NoneStr]
    /\ UNCHANGED osname
    /\ UNCHANGED <<regVars, statVars>>

(***************************************************************************)
(* Specifications.                                                         *)
(***************************************************************************)
vars == <<objs, users, call, ret, live,
          sNumbers, sThreshold, sCall, sStats, sFiltered,
          osname, dirs, files, fcall, fret>>

RegistryAtRest ==
    /\ objs = <<>> /\ users = <<>> /\ call = NoCall /\ ret = NoRet /\ live = {}

StatsAtRest ==
    /\ sNumbers = <<>> /\ sThreshold = 0 /\ sCall = "init"
    /\ sStats = EmptyStats /\ sFiltered = <<>>

FilesAtRest ==
    /\ osname = "posix" /\ dirs = {} /\ files = NoFile
    /\ fcall = NoFCall /\ fret = NoFRet

Init == InitRegistry /\ StatsAtRest /\ FilesAtRest

\* a client that only calls the registry
Next ==
    \/ \E uid \in UserIds, name \in Names, email \in Emails : NewUser(uid, name, email)
    \/ \E o \in 1..MaxObjs : AddUser(o)
    \/ \E uid \in UserIds : GetUser(uid)
    \/ \E uid \in UserIds, name \in OptNames, email \in OptEmails :
           UpdateUser(uid, name, email)
    \/ \E uid \in UserIds : DeleteUser(uid)
    \/ GetAllUsers
    \/ \E query \in Queries : SearchUsersByName(query)

Spec == Init /\ [][Next]_vars

\* a client that also writes to the User objects it holds
NextShared ==
    \/ \E uid \in UserIds, name \in Names, email \in Emails :
           Len(objs) < MaxShared /\ NewUser(uid, name, email)
    \/ \E o \in 1..MaxObjs : AddUser(o)
    \/ \E uid \in UserIds : GetUser(uid)
    \/ \E uid \in UserIds, name \in OptNames, email \in OptEmails :
           UpdateUser(uid, name, email)
    \/ \E uid \in UserIds : DeleteUser(uid)
    \/ GetAllUsers
    \/ \E query \in Queries : SearchUsersByName(query)
    \/ \E o \in 1..MaxObjs, uid \in UserIds : CallerSetAttr(o, "id", uid)
    \/ \E o \in 1..MaxObjs, name \in Names : CallerSetAttr(o, "name", name)
    \/ \E o \in 1..MaxObjs, email \in Emails : CallerSetAttr(o, "email", email)

SpecShared == Init /\ [][NextShared]_vars

\* the statistics helper applied to every sample
InitS == RegistryAtRest /\ InitStats /\ FilesAtRest
NextStats == CalculateStatistics \/ FilterOutliers
SpecStats == InitS /\ [][NextStats]_vars

\* the file manager on every start file system
InitF == RegistryAtRest /\ StatsAtRest /\ InitFiles
NextFiles ==
    \/ \E path \in Paths : ReadFile(path)
    \/ \E path \in Paths, content \in Texts : WriteFile(path, content)

SpecFiles == InitF /\ [][NextFiles]_vars

(***************************************************************************)
(* Properties of the registry.                                             *)
(***************************************************************************)
\* what the registry reports under each key: the record's id, name and address
Mapping(d, heap) == [key \in Keys(d) |-> heap[Lookup(d, key)]]

\* the registry's calls that only read
ReadOnlyOps == {"get_user", "get_all_users", "search_users_by_name"}

\* C1: add_user(r) returns False and leaves the mapping as it was when r.id
\* is a key; otherwise it returns True and the mapping afterwards is the old
\* mapping plus r.id -> r, every other entry kept.
AddContract ==
    [][call'.op = "add_user" =>
         LET r == objs[call'.o]
             old == Mapping(users, objs)
             new == Mapping(users', objs')
         IN IF r.id \in DOMAIN old
              THEN ret'.b = FALSE /\ new = old
              ELSE /\ ret'.b = TRUE
                   /\ new = [key \in DOMAIN old \cup {r.id} |->
                               IF key = r.id THEN r ELSE old[key]]]_vars

\* add_user was refused for a record whose id is in use by a record with
\* another name or address, which is still the one stored
AddRefused ==
    /\ call.op = "add_user"
    /\ ret.b = FALSE
    /\ HasKey(users, call.id)
    /\ objs[call.o] # objs[Lookup(users, call.id)]

\* whether an optional argument carries a value to store: it is not None
Given(arg) == arg # NoneStr

\* whether an optional argument is present and non-empty
GivenNonEmpty(arg) == arg # NoneStr /\ arg[1] # <<>>

\* C2 as stated: update_user returns False and changes nothing for an unknown
\* id; for a known id it returns True and overwrites name (address) exactly
\* when the argument is present and non-empty, keeping everything else.
UpdateSkipsEmpty ==
    [][call'.op = "update_user" =>
         LET old == Mapping(users, objs)
             new == Mapping(users', objs')
             uid == call'.id
         IN IF uid \notin DOMAIN old
              THEN ret'.b = FALSE /\ new = old
              ELSE /\ ret'.b = TRUE
                   /\ new = [key \in DOMAIN old |->
                        IF key # uid THEN old[key]
                        ELSE [id |-> old[uid].id,
                              name |-> IF GivenNonEmpty(call'.name)
                                         THEN call'.name[1] ELSE old[uid].name,
                              email |-> IF GivenNonEmpty(call'.email)
                                          THEN call'.email[1] ELSE old[uid].email]]]_vars

\* C2 amended: update_user returns False and changes nothing for an unknown
\* id; for a known id it returns True and overwrites name (address) exactly
\* when the argument is not None -- an empty string is a value and is stored --
\* keeping the other field, every other record and the key set.
UpdateContract ==
    [][call'.op = "update_user" =>
         LET old == Mapping(users, objs)
             new == Mapping(users', objs')
             uid == call'.id
         IN IF uid \notin DOMAIN old
              THEN ret'.b = FALSE /\ new = old
              ELSE /\ ret'.b = TRUE
                   /\ new = [key \in DOMAIN old |->
                        IF key # uid THEN old[key]
                        ELSE [id |-> old[uid].id,
                              name |-> IF Given(call'.name)
                                         THEN call'.name[1] ELSE old[uid].name,
                              email |-> IF Given(call'.email)
                                          THEN call'.email[1] ELSE old[uid].email]]]_vars

\* update_user was given the empty string for the name and no address, and the
\* record now holds the empty name beside its address
UpdatedToEmptyName ==
    /\ call.op = "update_user"
    /\ call.name = Some(<<>>)
    /\ call.email = NoneStr
    /\ ret.b = TRUE
    /\ HasKey(users, call.id)
    /\ objs[Lookup(users, call.id)].name = <<>>
    /\ objs[Lookup(users, call.id)].email # <<>>

\* C3: delete_user returns False and changes nothing for an unknown id; for a
\* known id it returns True and removes exactly that key.  Right after a
\* successful delete_user(id): get_user(id) is None, delete_user(id) returns
\* False, and add_user of a record with that id returns True.
DeleteContract ==
    [][/\ call'.op = "delete_user" =>
            LET old == Mapping(users, objs)
                new == Mapping(users', objs')
            IN IF call'.id \notin DOMAIN old
                 THEN ret'.b = FALSE /\ new = old
                 ELSE /\ ret'.b = TRUE
                      /\ new = [key \in DOMAIN old \ {call'.id} |-> old[key]]
       /\ (call.op = "delete_user" /\ ret.b /\ call'.id = call.id) =>
            /\ call'.op = "get_user" => ret'.refs = <<>>
            /\ call'.op = "delete_user" => ret'.b = FALSE
            /\ call'.op = "add_user" => ret'.b = TRUE]_vars

\* one of two stored records was deleted and the other is still there
DeletedOneOfTwo ==
    /\ call.op = "delete_user"
    /\ ret.b = TRUE
    /\ Len(users) = 1
    /\ users[1].k # call.id

\* C4: under the registry's calls alone, every key maps to a record whose id
\* is the key; the keys are the ids added successfully and not deleted since;
\* get_user(id) returns a record exactly for those, namely the record stored
\* under id; and get_user, get_all_users and search_users_by_name leave the
\* mapping as it was.
RegistryView ==
    [][/\ \A i \in 1..Len(users') : objs'[users'[i].v].id = users'[i].k
       /\ Keys(users') = live'
       /\ call'.op = "get_user" =>
            /\ ret'.refs # <<>> <=> call'.id \in live'
            /\ ret'.refs # <<>> =>
                 /\ ret'.refs = <<Lookup(users', call'.id)>>
                 /\ objs'[ret'.refs[1]].id = call'.id
       /\ call'.op \in ReadOnlyOps =>
            Mapping(users', objs') = Mapping(users, objs) /\ users' = users]_vars

\* get_user found the record of the id inserted second, after an id inserted
\* first that is the larger one
GotSecondInserted ==
    /\ call.op = "get_user"
    /\ Len(users) = 2
    /\ users[1].k > users[2].k
    /\ call.id = users[2].k
    /\ ret.refs = <<users[2].v>>

\* whether name contains query as a contiguous substring, letters compared
\* without regard to case
MatchesIgnoringCase(query, name) ==
    \E i \in 0..(Len(name) - Len(query)) :
        \A j \in 1..Len(query) : LowerChar(name[i + j]) = LowerChar(query[j])

\* C10: search_users_by_name(query) returns exactly the stored records whose
\* name contains query case-insensitively, each once, in the order
\* get_all_users lists them; the empty query returns them all; "john" finds
\* "John Doe"; the registry is not modified.
SearchContract ==
    [][call'.op = "search_users_by_name" =>
         LET query == call'.query
             Hit(o) == MatchesIgnoringCase(query, objs[o].name)
         IN /\ ret'.refs = SelectSeq(Values(users), Hit)
            /\ query = <<>> => ret'.refs = Values(users)
            /\ query = <<"j", "o", "h", "n">> =>
                 \A i \in 1..Len(users) :
                    objs[users[i].v].name = JohnDoe =>
                       \E n \in 1..Len(ret'.refs) : ret'.refs[n] = users[i].v
            /\ users' = users
            /\ objs' = objs]_vars

\* a query in capitals found one of two stored records
SearchFoundOneOfTwo ==
    /\ call.op = "search_users_by_name"
    /\ call.query = <<"O", "E">>
    /\ Len(users) = 2
    /\ Len(ret.refs) = 1
    /\ objs[ret.refs[1]].name = JohnDoe

\* C5 as stated: no change the caller makes to a record it passed to add_user
\* or got back changes what the registry reports under a key; the stored id
\* never changes and stored name and address change only through update_user.
NoExternalAliasing ==
    [][\A key \in Keys(users) \cap Keys(users') :
          LET before == Mapping(users, objs)[key]
              after == Mapping(users', objs')[key]
          IN /\ after.id = before.id
             /\ call'.op # "update_user" => after = before]_vars

\* C5 amended: the registry stores the very object passed to add_user and
\* get_user, get_all_users and search_users_by_name return that object, so a
\* write the caller makes to it is what the registry reports afterwards; the
\* registry's own calls never change a stored id, and change a stored name or
\* address only in update_user.
SharedRecords ==
    [][/\ (call'.op = "add_user" /\ ret'.b) => Lookup(users', call'.id) = call'.o
       /\ (call'.op = "get_user" /\ ret'.refs # <<>>) =>
             ret'.refs = <<Lookup(users, call'.id)>>
       /\ call'.op \in {"get_all_users", "search_users_by_name"} =>
             \A n \in 1..Len(ret'.refs) :
                \E i \in 1..Len(users) : users[i].v = ret'.refs[n]
       /\ call'.op = "setattr" =>
             /\ users' = users
             /\ \A key \in Keys(users) :
                   Lookup(users, key) = call'.o =>
                      /\ Mapping(users', objs')[key] = objs'[call'.o]
                      /\ Mapping(users', objs')[key] # Mapping(users, objs)[key]
       /\ call'.op # "setattr" =>
             \A key \in Keys(users) \cap Keys(users') :
                LET before == Mapping(users, objs)[key]
                    after == Mapping(users', objs')[key]
                IN /\ after.id = before.id
                   /\ call'.op # "update_user" => after = before]_vars

\* the caller wrote the id of an object the registry holds: the registry now
\* reports, under a key, a record with another id
StoredIdRewritten ==
    /\ call.op = "setattr"
    /\ call.field = "id"
    /\ \E i \in 1..Len(users) :
          users[i].v = call.o /\ objs[call.o].id # users[i].k


(***************************************************************************)
(* Properties of the statistics helper.                                    *)
(***************************************************************************)
\* the number of elements of s below v, and at most v
CountBelow(s, v) == Cardinality({i \in 1..Len(s) : s[i] < v})
CountUpTo(s, v) == Cardinality({i \in 1..Len(s) : s[i] <= v})

\* the k-th smallest element of s, counted with multiplicity
KthSmallest(s, k) ==
    CHOOSE v \in {s[i] : i \in 1..Len(s)} : CountBelow(s, v) < k /\ k <= CountUpTo(s, v)

\* s with the elements at positions i and i + 1 exchanged
SwapAt(s, i) ==
    [n \in 1..Len(s) |-> IF n = i THEN s[i + 1] ELSE IF n = i + 1 THEN s[i] ELSE s[n]]

FilterContract ==
    sCall = "filter_outliers" =>
       LET xs == sNumbers
           N == Len(xs)
           S == Sum(xs)
           Q == Sum([i \in 1..N |-> xs[i] * xs[i]])
           Kept(x) == (N * x - S) * (N * x - S)
                        <= sThreshold * sThreshold * (N * Q - S * S)
       IN /\ N < 3 => sFiltered = xs
          /\ N >= 3 => sFiltered = SelectSeq(xs, Kept)
          /\ (\A i \in 1..N : xs[i] = xs[1]) => sFiltered = xs
          /\ (xs = DataWithOutliers /\ sThreshold = 2) => sFiltered = <<1, 2, 3, 4, 5>>

\* the demonstration data lost its outlier
OutlierDropped ==
    /\ sCall = "filter_outliers"
    /\ sNumbers = DataWithOutliers
    /\ sThreshold = 2
    /\ sFiltered = <<1, 2, 3, 4, 5>>

(***************************************************************************)
(* Properties of the file manager.                                         *)
(***************************************************************************)
\* C6: write_file(p, s) that succeeded, followed at once by read_file(p),
\* returns exactly s (after two writes, the content of the last).
RoundTrip ==
    [][(/\ fcall.op = "write_file"
        /\ fret.ok
        /\ fcall'.op = "read_file"
        /\ fcall'.path = fcall.path) => fret'.text = Some(fcall.content)]_vars

\* proper prefixes of a path that name something: its parent directories
Parents(path) == {SubSeq(path, 1, n) : n \in 1..(Len(path) - 1)}

\* a path that can be written: it is no directory and none of its parents is
\* a regular file
Writable(path, ds, fs) ==
    /\ path \notin ds
    /\ \A parent \in Parents(path) : parent \notin DOMAIN fs

\* C7: write_file creates the missing parent directories and returns True for
\* every writable path -- a bare file name included -- and a text utf-8
\* encodes, and returns False otherwise; read_file returns the content of a
\* file that can be read and None otherwise.
WriteAnyPath ==
    [][/\ fcall'.op = "write_file" =>
            IF Writable(fcall'.path, dirs, files) /\ Encodable(fcall'.content)
              THEN /\ fret'.ok = TRUE
                   /\ Parents(fcall'.path) \subseteq dirs'
                   /\ fcall'.path \in DOMAIN files'
              ELSE fret'.ok = FALSE
       /\ fcall'.op = "read_file" =>
            (fret'.text # NoneStr <=> fcall'.path \in DOMAIN files)]_vars

=============================================================================
